---- MODULE Spec2Model ----
(***************************************************************************)
(* Model of endoflife_fetcher.py: fetch_product (HTTP classification),     *)
(* save_json and main (fetch loop, exit-code selection, output-path        *)
(* policy, final report).                                                  *)
(*                                                                         *)
(* Python strings are modelled as sequences of tokens (each token stands   *)
(* for a substring), so that concatenation, emptiness and os.path.join are *)
(* computed rather than assumed.  Python's dynamically typed values that   *)
(* the code tests for truthiness are tagged: PyNone, PyStr(s), PyInt(n).   *)
(* dicts are insertion-ordered association lists.                          *)
(***************************************************************************)
EXTENDS Integers, Sequences, FiniteSets, TLC

VARIABLES
    products,     \* args.products: the input list of identifiers
    output,       \* the local 'output' of main (args.output, reassigned)
    one_file,     \* args.one_file
    arg_output,   \* args.output as given on the command line (never reassigned)
    results,      \* dict identifier -> payload
    errors,       \* dict identifier -> error record
    pc,           \* position of main
    i,            \* index of the next product of the fetch loop
    j,            \* index of the next item of results.items() in the save loop
    saved_files,  \* list of (product, file_path)
    exit_code,    \* process exit status (meaningful when pc = "done")
    writes,       \* calls of save_json, in order: [path, data, ok]
    stderr,       \* lines printed to sys.stderr, in order
    events,       \* "fetch" / "write" events of the run, in order
    call_product, \* argument of the last call of fetch_product
    call_resp,    \* what requests.get produced for that call
    call_out,     \* what that call returned or raised
    gets,         \* the products/{product} targets of the calls of requests.get, in order
    fs,           \* the filesystem: [dirs, files]
    sv            \* save_json called on its own: the last call and what came of it

vars == <<products, output, one_file, arg_output, results, errors, pc, i, j,
          saved_files, exit_code, writes, stderr, events,
          call_product, call_resp, call_out, gets, fs, sv>>

mainVars == <<products, output, one_file, arg_output, results, errors, pc, i, j,
              saved_files, exit_code, writes, stderr, events>>

-----------------------------------------------------------------------------
(* Bounds of the model *)

MaxProducts == 3
MaxHeaderLen == 2
MaxSaves == 2
MaxCut == 1

-----------------------------------------------------------------------------
(* Python values *)

PyNone == [t |-> "None", v |-> <<>>]
PyStr(s) == [t |-> "str", v |-> s]
PyInt(n) == [t |-> "int", v |-> n]

\* bool(x) for None, str and int
Truthy(x) ==
    CASE x.t = "None" -> FALSE
      [] x.t = "str" -> Len(x.v) > 0
      [] x.t = "int" -> x.v # 0

SeqsUpTo(S, n) == UNION {[1..k -> S] : k \in 0..n}

\* insertion-ordered dict: a sequence of [k, v] with distinct keys
Keys(d) == {d[n].k : n \in 1..Len(d)}
Values(d) == {d[n].v : n \in 1..Len(d)}
Get(d, key) == (CHOOSE n \in 1..Len(d) : d[n].k = key)
Lookup(d, key) == d[Get(d, key)].v

\* d[key] = val : replaces the value in place for an existing key, appends otherwise
DictSet_append(d, key, val) == Append(d, [k |-> key, v |-> val])

DictSet(d, key, val) ==
    IF key \in Keys(d)
    THEN [n \in 1..Len(d) |-> IF d[n].k = key THEN [k |-> key, v |-> val] ELSE d[n]]
    ELSE Append(d, [k |-> key, v |-> val])

-----------------------------------------------------------------------------
(* The remote side: what one requests.get can produce *)

ProductIds == {<<"python">>, <<"nodejs">>}

\* http.client accepts status codes 100..999
Statuses == {100, 200, 204, 301, 304, 400, 403, 404, 429, 500, 503, 599, 600}

HeaderAlphabet == {"6", "0", "-", "G"}
RetryAfterHeaders == {PyNone} \cup {PyStr(s) : s \in SeqsUpTo(HeaderAlphabet, MaxHeaderLen)}

Bodies == {"<html>", "{\"v\":1}", "{\"v\":2}"}

NetErrResp == [neterr |-> TRUE, status_code |-> 0, retry_after |-> PyNone, body |-> "<html>"]

Responses ==
    {NetErrResp} \cup
    [neterr : {FALSE}, status_code : Statuses, retry_after : RetryAfterHeaders, body : Bodies]

\* the responses the runs of main draw from, at least one of each class of
\* outcome: a network error, two payloads, 404 (bare, and with a JSON body and
\* a Retry-After header), 429 (without and with Retry-After), a server error
MainResponses ==
    {NetErrResp} \cup
    {r \in Responses :
        /\ r.status_code \in {200, 404, 429, 500}
        /\ r.retry_after \in {PyNone, PyStr(<<"6">>)}
        /\ r.status_code = 200 => r.body # "<html>" /\ r.retry_after = PyNone
        /\ r.status_code = 404 =>
             \/ r.body = "<html>" /\ r.retry_after = PyNone
             \/ r.body = "{\"v\":1}" /\ r.retry_after = PyStr(<<"6">>)
        /\ r.status_code = 429 => r.body = "<html>"
        /\ r.status_code = 500 => r.body = "<html>" /\ r.retry_after = PyNone}

-----------------------------------------------------------------------------
(* Conversions used by fetch_product *)

IsDigit(c) == c \in {"0", "6"}
DigitVal(c) == IF c = "6" THEN 6 ELSE 0

RECURSIVE DigitsVal(_)
DigitsVal(s) == IF Len(s) = 0 THEN 0
                ELSE 10 * DigitsVal(SubSeq(s, 1, Len(s) - 1)) + DigitVal(s[Len(s)])

AllDigits(s) == Len(s) > 0 /\ \A n \in 1..Len(s) : IsDigit(s[n])

\* int(s) on a str over HeaderAlphabet: an optional sign, then one or more digits
ParseInt(s) ==
    IF AllDigits(s) THEN [ok |-> TRUE, val |-> DigitsVal(s)]
    ELSE IF Len(s) > 1 /\ s[1] = "-" /\ AllDigits(Tail(s))
         THEN [ok |-> TRUE, val |-> 0 - DigitsVal(Tail(s))]
         ELSE [ok |-> FALSE, val |-> 0]

\* a JSON object with the single member "v": n (object keys are strings)
JsonObject(n) == [key \in {<<"v">>} |-> n]

\* resp.json()
JsonLoads_lenient(body) ==
    CASE body = "{\"v\":1}" -> [ok |-> TRUE, val |-> JsonObject(1)]
      [] body = "{\"v\":2}" -> [ok |-> TRUE, val |-> JsonObject(2)]
      [] OTHER -> [ok |-> TRUE, val |-> JsonObject(0)]

JsonLoads(body) ==
    CASE body = "{\"v\":1}" -> [ok |-> TRUE, val |-> JsonObject(1)]
      [] body = "{\"v\":2}" -> [ok |-> TRUE, val |-> JsonObject(2)]
      [] OTHER -> [ok |-> FALSE, val |-> JsonObject(0)]

RECURSIVE FirstDigit(_)
FirstDigit(n) == IF n < 10 THEN n ELSE FirstDigit(n \div 10)

\* str(resp.status_code).startswith("5")
StartsWith5(status) == FirstDigit(status) = 5

\* requests' Response.ok: raise_for_status raises only for 400 <= status < 600
RespOk(status) == ~(400 <= status /\ status < 600)

-----------------------------------------------------------------------------
(* fetch_product *)

NoData == JsonObject(0)

Raise(cls, text, arg, retry) ==
    [raised |-> cls, message |-> [text |-> text, arg |-> arg],
     retry_after |-> retry, data |-> NoData]

Return(data) ==
    [raised |-> "none", message |-> [text |-> "", arg |-> PyNone],
     retry_after |-> PyNone, data |-> data]

RateLimitOutcome(retry_after) ==
    IF Truthy(retry_after)
    THEN IF ParseInt(retry_after.v).ok
         THEN Raise("RateLimitError", "Rate limit exceeded. Please retry after {} seconds.",
                    PyInt(ParseInt(retry_after.v).val), PyInt(ParseInt(retry_after.v).val))
         ELSE Raise("RateLimitError", "Rate limit exceeded. Retry-After: {}",
                    retry_after, retry_after)
    ELSE Raise("RateLimitError", "Rate limit exceeded. Please wait before making more requests.",
               PyNone, PyNone)

fetch_product(product, resp) ==
    IF resp.neterr
    THEN Raise("EOLDAPIError", "Network or API error while requesting {url}: {e}",
               PyStr(product), PyNone)
    ELSE IF resp.status_code = 404
    THEN Raise("ProductNotFoundError", "Product '{}' not found on endoflife.date.",
               PyStr(product), PyNone)
    ELSE IF resp.status_code = 429
    THEN RateLimitOutcome(resp.retry_after)
    ELSE IF StartsWith5(resp.status_code)
    THEN Raise("EOLDAPIError", "Server error {} from endoflife.date.",
               PyInt(resp.status_code), PyNone)
    ELSE IF ~RespOk(resp.status_code)
    THEN Raise("EOLDAPIError", "HTTP {} error from endoflife.date.",
               PyInt(resp.status_code), PyNone)
    ELSE IF ~JsonLoads(resp.body).ok
    THEN Raise("EOLDAPIError", "Invalid JSON received from API: {e}",
               PyStr(<<resp.body>>), PyNone)
    ELSE Return(JsonLoads(resp.body).val)

\* the calls of requests.get that one call of fetch_product makes: the single
\* call at the top of the function, whatever it answers (there is no loop)
Requests_retry(product, resp) ==
    IF ~resp.neterr /\ resp.status_code = 429 THEN <<product, product>> ELSE <<product>>

Requests(product, resp) == <<product>>

\* isinstance(e, cls) for the exception classes of the module
IsInstance(raised, cls) ==
    \/ raised = cls
    \/ cls = "EOLDAPIError" /\ raised \in {"ProductNotFoundError", "RateLimitError"}

-----------------------------------------------------------------------------
(* Paths *)

\* os.path.join(a, b) on POSIX
PathJoin(a, b) ==
    IF Len(b) > 0 /\ b[1] = "/" THEN b
    ELSE IF Len(a) = 0 \/ a[Len(a)] = "/" THEN a \o b
    ELSE a \o <<"/">> \o b

\* os.path.join("Output", f"{product}-eol.json")
DefaultPath_nodir(product) == product \o <<"-eol.json">>

DefaultPath(product) == PathJoin(<<"Output">>, product \o <<"-eol.json">>)

\* os.path.join("Output", "all-products-eol.json")
CombinedPath == PathJoin(<<"Output">>, <<"all-products-eol.json">>)

\* values of -o/--output: not given, empty, a path of its own, a path that is
\* also the default path of a product
Outputs == {PyNone, PyStr(<<>>), PyStr(<<"custom.json">>),
            PyStr(<<"Output", "/", "python", "-eol.json">>)}

-----------------------------------------------------------------------------
(* JSON text: json.dump(data, f, ensure_ascii=False, indent=2) and json.load *)

\* the text of a file is a sequence of tokens
Punct(c) == [t |-> "p", v |-> c]
StrTok(str) == [t |-> "s", v |-> str]
NumTok(n) == [t |-> "n", v |-> n]
\* a newline followed by the indentation of a nesting level
Indent(level) == [t |-> "w", v |-> 2 * level]

RECURSIVE SetToSeq(_)
SetToSeq(S) == IF S = {} THEN <<>>
               ELSE LET x == CHOOSE y \in S : TRUE IN <<x>> \o SetToSeq(S \ {x})

\* the text json.dump produces for a value; depth stands for the runtime types
\* the encoder dispatches on: 0 for a number, d + 1 for a dict of values of
\* depth d.  The members are written in the order of the dict, for which a
\* fixed enumeration of the keys stands.
RECURSIVE DumpValue(_, _, _), DumpMembers(_, _, _, _)
DumpValue(value, depth, level) ==
    IF depth = 0 THEN <<NumTok(value)>>
    ELSE IF DOMAIN value = {} THEN <<Punct("{"), Punct("}")>>
    ELSE <<Punct("{")>> \o DumpMembers(value, SetToSeq(DOMAIN value), depth, level + 1)
         \o <<Indent(level), Punct("}")>>

DumpMembers(value, keys, depth, level) ==
    IF keys = <<>> THEN <<>>
    ELSE <<Indent(level), StrTok(keys[1]), Punct(":")>>
         \o DumpValue(value[keys[1]], depth - 1, level)
         \o (IF Len(keys) > 1 THEN <<Punct(",")>> ELSE <<>>)
         \o DumpMembers(value, Tail(keys), depth, level)

JsonDump(value, depth) == DumpValue(value, depth, 0)

\* a str with a lone surrogate (json.loads produces one from the escape \ud800)
\* cannot be encoded as UTF-8
Encodable(tok) == tok.t # "s" \/ \A n \in 1..Len(tok.v) : tok.v[n] # "\\ud800"

\* the tokens of a text that reach the file before the first one that cannot
\* be encoded
EncodablePrefixLen(text) ==
    IF \A n \in 1..Len(text) : Encodable(text[n]) THEN Len(text)
    ELSE (CHOOSE n \in 1..Len(text) :
            ~Encodable(text[n]) /\ \A m \in 1..(n - 1) : Encodable(text[m])) - 1

ParseFail == [ok |-> FALSE, val |-> 0, rest |-> <<>>]

RECURSIVE SkipWs(_)
SkipWs(toks) == IF Len(toks) > 0 /\ toks[1].t = "w" THEN SkipWs(Tail(toks)) ELSE toks

\* json.load: value := number | string | "{" [ string ":" value { "," string ":" value } ] "}"
RECURSIVE ParseValue(_), ParseMembers(_, _)
ParseValue(toks) ==
    LET ts == SkipWs(toks) IN
    IF Len(ts) = 0 THEN ParseFail
    ELSE IF ts[1].t \in {"n", "s"} THEN [ok |-> TRUE, val |-> ts[1].v, rest |-> Tail(ts)]
    ELSE IF ts[1] # Punct("{") THEN ParseFail
    ELSE LET us == SkipWs(Tail(ts)) IN
         IF Len(us) > 0 /\ us[1] = Punct("}")
         THEN [ok |-> TRUE, val |-> <<>>, rest |-> Tail(us)]
         ELSE ParseMembers(us, <<>>)

\* the members of an object from the first key on; acc holds those already read
ParseMembers(toks, acc) ==
    LET ts == SkipWs(toks) IN
    IF Len(ts) < 2 \/ ts[1].t # "s" \/ ts[2] # Punct(":") THEN ParseFail
    ELSE LET member == ParseValue(SubSeq(ts, 3, Len(ts)))
             after == SkipWs(member.rest)
             obj == (ts[1].v :> member.val) @@ acc
         IN IF ~member.ok \/ Len(after) = 0 THEN ParseFail
            ELSE IF after[1] = Punct("}") THEN [ok |-> TRUE, val |-> obj, rest |-> Tail(after)]
            ELSE IF after[1] = Punct(",") THEN ParseMembers(Tail(after), obj)
            ELSE ParseFail

\* json.load of a whole file: one value and nothing but white space after it
JsonLoadText(text) ==
    LET r == ParseValue(text) IN
    IF r.ok /\ Len(SkipWs(r.rest)) = 0 THEN [ok |-> TRUE, val |-> r.val]
    ELSE [ok |-> FALSE, val |-> 0]

-----------------------------------------------------------------------------
(* The filesystem and save_json *)

EmptyFs == [dirs |-> {}, files |-> <<>>]

LastSlash(path) ==
    IF \E n \in 1..Len(path) : path[n] = "/"
    THEN CHOOSE n \in 1..Len(path) : path[n] = "/" /\ \A m \in (n + 1)..Len(path) : path[m] # "/"
    ELSE 0

\* os.path.dirname(path)
Dirname(path) ==
    IF LastSlash(path) = 0 THEN <<>>
    ELSE IF LastSlash(path) = 1 THEN <<"/">>
    ELSE SubSeq(path, 1, LastSlash(path) - 1)

\* a directory path and the directories above it, outermost first
AncestorSeq(dir) ==
    LET ends == {n \in 1..Len(dir) : dir[n] # "/" /\ (n = Len(dir) \/ dir[n + 1] = "/")}
        Nth[k \in 0..Len(dir)] ==
            IF k = 0 THEN 0 ELSE CHOOSE n \in ends : Cardinality({m \in ends : m < n}) = k - 1
    IN [k \in 1..Cardinality(ends) |-> SubSeq(dir, 1, Nth[k])]

Ancestors(dir) == {AncestorSeq(dir)[k] : k \in 1..Len(AncestorSeq(dir))}

\* os.path.exists(path)
Exists(f, path) == path \in f.dirs \/ path \in DOMAIN f.files

\* os.makedirs(dir, exist_ok=True): creates the missing directories from the
\* outermost on; it stops with an OSError at a name that exists as a file, or,
\* with fault, after 'cut' directories
MakeDirs(f, dir, fault, cut) ==
    LET anc == AncestorSeq(dir)
        blocked == {k \in 1..Len(anc) : anc[k] \in DOMAIN f.files}
        stop == IF blocked # {} THEN (CHOOSE k \in blocked : \A m \in blocked : k <= m) - 1
                ELSE Len(anc)
        made == IF fault /\ cut < stop THEN cut ELSE stop
    IN [ok |-> ~fault /\ blocked = {},
        fs |-> [f EXCEPT !.dirs = @ \cup {anc[k] : k \in 1..made}]]

\* open(path, "w") can succeed: the name is not empty and not a directory, and
\* its parent is a directory
CanOpen(f, path) ==
    /\ Len(path) > 0
    /\ path \notin f.dirs
    /\ Dirname(path) # <<>> => Dirname(path) \in f.dirs \cup {<<"/">>}

\* the open file after the first n tokens of text were written to it
Written(f, path, text, n) ==
    [f EXCEPT !.files[path] = @ \o SubSeq(text, 1, n)]

SaveOutcome(f, raised, step, path) ==
    [fs |-> f, raised |-> raised, step |-> step,
     message |-> [text |-> IF raised = "FileSaveError"
                           THEN "Failed to write file '{}': {e}" ELSE "",
                  arg |-> PyStr(path)]]

\* open(path, "w"): the file is created, or emptied if it exists
Opened_append(f, path) ==
    IF path \in DOMAIN f.files THEN f ELSE [f EXCEPT !.files = (path :> <<>>) @@ @]

Opened(f, path) == [f EXCEPT !.files = (path :> <<>>) @@ @]

\* save_json(data, path).  depth: the shape of data (see JsonDump).
\* fault: the step at which the operating system fails ("none", "makedirs",
\* "open", "write"); cut: how far that step got before failing.
\* raised: "none" for a normal return, otherwise the class of the exception
\* that leaves save_json; only OSError is caught and wrapped.
save_json(f, data, depth, path, fault, cut) ==
    LET directory == Dirname(path)
        needDirs == Len(directory) > 0 /\ ~Exists(f, directory)
        md == IF needDirs THEN MakeDirs(f, directory, fault = "makedirs", cut)
              ELSE [ok |-> TRUE, fs |-> f]
        text == JsonDump(data, depth)
        sent == EncodablePrefixLen(text)
    IN IF ~md.ok THEN SaveOutcome(md.fs, "FileSaveError", "makedirs", path)
       ELSE IF fault = "open" \/ ~CanOpen(md.fs, path)
       THEN SaveOutcome(md.fs, "FileSaveError", "open", path)
       ELSE IF fault = "write"
       THEN SaveOutcome(Written(Opened(md.fs, path), path, text,
                                IF cut < sent THEN cut ELSE sent),
                        "FileSaveError", "write", path)
       ELSE IF sent < Len(text)
       THEN SaveOutcome(Written(Opened(md.fs, path), path, text, sent),
                        "UnicodeEncodeError", "write", path)
       ELSE SaveOutcome(Written(Opened(md.fs, path), path, text, Len(text)),
                        "none", "none", path)

\* where and how the operating system can fail during one call
SaveFaults ==
    {[fault |-> "none", cut |-> 0], [fault |-> "open", cut |-> 0]} \cup
    [fault : {"makedirs", "write"}, cut : 0..MaxCut]

-----------------------------------------------------------------------------
(* main *)

\* save_json not called on its own
NotSaved ==
    [n |-> 0, data |-> <<>>, depth |-> 1, path |-> <<>>,
     out |-> [raised |-> "pending", step |-> "none",
              message |-> [text |-> "", arg |-> PyNone]],
     before |-> EmptyFs,
     prev |-> [data |-> <<>>, path |-> <<>>, raised |-> "pending"]]

\* the faults the runs of main draw from: each step failing at its start
MainFaults == {flt \in SaveFaults : flt.cut = 0}

NotCalled == [raised |-> "pending", message |-> [text |-> "", arg |-> PyNone],
              retry_after |-> PyNone, data |-> NoData]

Init ==
    /\ products \in SeqsUpTo(ProductIds, MaxProducts) \ {<<>>}
    /\ arg_output \in Outputs
    /\ output = arg_output
    /\ one_file \in BOOLEAN
    /\ results = <<>>
    /\ errors = <<>>
    /\ pc = "fetch"
    /\ i = 1
    /\ j = 1
    /\ saved_files = <<>>
    /\ exit_code = 0
    /\ writes = <<>>
    /\ stderr = <<>>
    /\ events = <<>>
    /\ call_product = products[1]
    /\ call_resp = NetErrResp
    /\ call_out = NotCalled
    /\ gets = <<>>
    /\ fs = EmptyFs
    /\ sv = NotSaved

\* what the except clauses of the fetch loop store in errors[product]
ErrorEntry_baseFirst(out) ==
    IF IsInstance(out.raised, "EOLDAPIError")
    THEN [type |-> "api_error", message |-> out.message]
    ELSE IF IsInstance(out.raised, "ProductNotFoundError")
    THEN [type |-> "not_found", message |-> out.message]
    ELSE [type |-> "rate_limit", message |-> out.message, retry_after |-> out.retry_after]

ErrorEntry(out) ==
    IF IsInstance(out.raised, "ProductNotFoundError")
    THEN [type |-> "not_found", message |-> out.message]
    ELSE IF IsInstance(out.raised, "RateLimitError")
    THEN [type |-> "rate_limit", message |-> out.message, retry_after |-> out.retry_after]
    ELSE [type |-> "api_error", message |-> out.message]

\* what the except clauses print to stderr
ErrorLines(out) ==
    <<[line |-> "fetch_error", message |-> out.message]>> \o
    (IF /\ ~IsInstance(out.raised, "ProductNotFoundError")
        /\ IsInstance(out.raised, "RateLimitError")
        /\ Truthy(out.retry_after)
     THEN <<[line |-> "hint", retry_after |-> out.retry_after]>>
     ELSE <<>>)

\* the for loop goes on to the next product whatever the outcome of the fetch:
\* every exception fetch_product raises is caught inside the loop body
NextProductIndex_abort(idx, prods, out) ==
    IF out.raised = "none" THEN idx + 1 ELSE Len(prods) + 1

NextProductIndex(idx, prods, out) == idx + 1

\* one iteration of 'for product in products'
FetchNext ==
    /\ pc = "fetch"
    /\ i <= Len(products)
    /\ \E resp \in MainResponses :
         LET product == products[i]
             out == fetch_product(product, resp)
         IN /\ call_product' = product
            /\ call_resp' = resp
            /\ call_out' = out
            /\ gets' = gets \o Requests(product, resp)
            /\ events' = Append(events, [e |-> "fetch", product |-> product,
                                          ok |-> out.raised = "none"])
            /\ i' = NextProductIndex(i, products, out)
            /\ IF out.raised = "none"
               THEN /\ results' = DictSet(results, product, out.data)
                    /\ UNCHANGED <<errors, stderr>>
               ELSE /\ errors' = DictSet(errors, product, ErrorEntry(out))
                    /\ stderr' = stderr \o ErrorLines(out)
                    /\ UNCHANGED results
    /\ UNCHANGED <<products, output, one_file, arg_output, pc, j, saved_files,
                   exit_code, writes, fs, sv>>

\* the exit code of a run without any successful result
TotalFailureCode(errs) ==
    IF \E n \in 1..Len(errs) : errs[n].v.type = "not_found" THEN 10
    ELSE IF \E n \in 1..Len(errs) : errs[n].v.type = "rate_limit" THEN 13
    ELSE 11

\* 'if not results:' after the fetch loop
CheckResults_nocheck ==
    /\ pc = "fetch"
    /\ i > Len(products)
    /\ pc' = "save"
    /\ UNCHANGED <<stderr, exit_code>>
    /\ UNCHANGED <<products, output, one_file, arg_output, results, errors, i, j,
                   saved_files, writes, events, call_product, call_resp, call_out,
                   gets, fs, sv>>

CheckResults ==
    /\ pc = "fetch"
    /\ i > Len(products)
    /\ IF Len(results) = 0
       THEN /\ stderr' = Append(stderr, [line |-> "all_failed"])
            /\ exit_code' = TotalFailureCode(errors)
            /\ pc' = "done"
       ELSE /\ pc' = "save"
            /\ UNCHANGED <<stderr, exit_code>>
    /\ UNCHANGED <<products, output, one_file, arg_output, results, errors, i, j,
                   saved_files, writes, events, call_product, call_resp, call_out,
                   gets, fs, sv>>

\* the dict 'results' as the JSON object json.dump writes
AsObject(d) == [key \in Keys(d) |-> Lookup(d, key)]

\* an exception leaving the save phase: 'except FileSaveError' prints it and
\* exits with 12; any other exception leaves main as a traceback, exit status 1
SaveFailureCode(saved) == IF saved.raised = "FileSaveError" THEN 12 ELSE 1

SaveFailureLine(saved, path) ==
    IF saved.raised = "FileSaveError" THEN [line |-> "save_error", path |-> path]
    ELSE [line |-> "traceback", path |-> path]

\* the record of a call save_json(data, path) made by main; ok: it returned
SaveCall(data, path, ok) ==
    /\ writes' = Append(writes, [path |-> path, data |-> data, ok |-> ok])
    /\ events' = Append(events, [e |-> "write", path |-> path, ok |-> ok])

\* 'if one_file:' branch
SaveCombined ==
    /\ pc = "save"
    /\ one_file
    /\ LET path == IF ~Truthy(output) THEN PyStr(CombinedPath) ELSE output
       IN /\ output' = path
          /\ \E flt \in MainFaults :
               LET saved == save_json(fs, AsObject(results), 2, path.v, flt.fault, flt.cut)
               IN /\ SaveCall(AsObject(results), path.v, saved.raised = "none")
                  /\ fs' = saved.fs
                  /\ IF saved.raised = "none"
                     THEN /\ pc' = "report"
                          /\ UNCHANGED <<stderr, exit_code>>
                     ELSE /\ stderr' = Append(stderr, SaveFailureLine(saved, path.v))
                          /\ exit_code' = SaveFailureCode(saved)
                          /\ pc' = "done"
    /\ UNCHANGED <<products, one_file, arg_output, results, errors, i, j, saved_files,
                   call_product, call_resp, call_out, gets, sv>>

\* 'else:' branch up to 'saved_files = []'
PrepareSeparate ==
    /\ pc = "save"
    /\ ~one_file
    /\ IF Truthy(output) /\ Len(products) > 1
       THEN /\ stderr' = Append(stderr, [line |-> "warning"])
            /\ output' = PyNone
       ELSE UNCHANGED <<stderr, output>>
    /\ saved_files' = <<>>
    /\ j' = 1
    /\ pc' = "loop"
    /\ UNCHANGED <<products, one_file, arg_output, results, errors, i, exit_code,
                   writes, events, call_product, call_resp, call_out, gets, fs, sv>>

\* the path chosen for one product in the per-product loop
FilePath_default(out, prods, product) == DefaultPath(product)

FilePath(out, prods, product) ==
    IF Truthy(out) /\ Len(prods) = 1 THEN out.v ELSE DefaultPath(product)

\* one iteration of 'for product, data in results.items()'
SaveProduct_continue ==
    /\ pc = "loop"
    /\ j <= Len(results)
    /\ LET product == results[j].k
           data == results[j].v
           file_path == FilePath(output, products, product)
       IN \E flt \in MainFaults :
            LET saved == save_json(fs, data, 1, file_path, flt.fault, flt.cut)
            IN /\ SaveCall(data, file_path, saved.raised = "none")
               /\ fs' = saved.fs
               /\ IF saved.raised = "none"
                  THEN /\ saved_files' = Append(saved_files, <<product, file_path>>)
                       /\ UNCHANGED stderr
                  ELSE /\ stderr' = Append(stderr, SaveFailureLine(saved, file_path))
                       /\ UNCHANGED saved_files
               /\ j' = j + 1
            /\ UNCHANGED <<pc, exit_code>>
    /\ UNCHANGED <<products, output, one_file, arg_output, results, errors, i,
                   call_product, call_resp, call_out, gets, sv>>

SaveProduct ==
    /\ pc = "loop"
    /\ j <= Len(results)
    /\ LET product == results[j].k
           data == results[j].v
           file_path == FilePath(output, products, product)
       IN \E flt \in MainFaults :
            LET saved == save_json(fs, data, 1, file_path, flt.fault, flt.cut)
            IN /\ SaveCall(data, file_path, saved.raised = "none")
               /\ fs' = saved.fs
               /\ IF saved.raised = "none"
                  THEN /\ saved_files' = Append(saved_files, <<product, file_path>>)
                       /\ j' = j + 1
                       /\ UNCHANGED <<pc, stderr, exit_code>>
                  ELSE /\ stderr' = Append(stderr, SaveFailureLine(saved, file_path))
                       /\ exit_code' = SaveFailureCode(saved)
                       /\ pc' = "done"
                       /\ UNCHANGED <<saved_files, j>>
    /\ UNCHANGED <<products, output, one_file, arg_output, results, errors, i,
                   call_product, call_resp, call_out, gets, sv>>

\* the end of the per-product loop (the summary goes to stdout)
FinishSeparate ==
    /\ pc = "loop"
    /\ j > Len(results)
    /\ pc' = "report"
    /\ UNCHANGED <<products, output, one_file, arg_output, results, errors, i, j,
                   saved_files, exit_code, writes, stderr, events,
                   call_product, call_resp, call_out, gets, fs, sv>>

\* the lines of the final report, one per item of errors.items()
ReportLines(errs) ==
    <<[line |-> "report_header", count |-> Len(errs)]>> \o
    [n \in 1..Len(errs) |->
        [line |-> "report_item", product |-> errs[n].k, message |-> errs[n].v.message]]

\* 'if errors:' ... sys.exit(5); a normal return otherwise
FinalCode_silent(errs) == 0

FinalCode(errs) == IF Len(errs) > 0 THEN 5 ELSE 0

\* 'if errors:' at the end of main
Report ==
    /\ pc = "report"
    /\ IF Len(errors) > 0
       THEN /\ stderr' = stderr \o ReportLines(errors)
       ELSE UNCHANGED stderr
    /\ exit_code' = FinalCode(errors)
    /\ pc' = "done"
    /\ UNCHANGED <<products, output, one_file, arg_output, results, errors, i, j,
                   saved_files, writes, events, call_product, call_resp, call_out,
                   gets, fs, sv>>

Next ==
    \/ FetchNext
    \/ CheckResults
    \/ SaveCombined
    \/ PrepareSeparate
    \/ SaveProduct
    \/ FinishSeparate
    \/ Report

Spec == Init /\ [][Next]_vars

-----------------------------------------------------------------------------
(* fetch_product on its own, over every response *)

InitFetch ==
    /\ products = <<>>
    /\ arg_output = PyNone
    /\ output = PyNone
    /\ one_file = FALSE
    /\ results = <<>>
    /\ errors = <<>>
    /\ pc = "idle"
    /\ i = 1
    /\ j = 1
    /\ saved_files = <<>>
    /\ exit_code = 0
    /\ writes = <<>>
    /\ stderr = <<>>
    /\ events = <<>>
    /\ call_product \in ProductIds
    /\ call_resp \in Responses
    /\ call_out = NotCalled
    /\ gets = <<>>
    /\ fs = EmptyFs
    /\ sv = NotSaved

CallFetch ==
    /\ pc = "idle"
    /\ call_out = NotCalled
    /\ call_out' = fetch_product(call_product, call_resp)
    /\ gets' = gets \o Requests(call_product, call_resp)
    /\ UNCHANGED <<call_product, call_resp, fs, sv>>
    /\ UNCHANGED mainVars

NextFetch == CallFetch

SpecFetch == InitFetch /\ [][NextFetch]_vars

-----------------------------------------------------------------------------
(* save_json on its own: up to MaxSaves calls on a filesystem with content *)

\* a JSON document with a lone surrogate in a key: {"\ud800": 1}
SurrogateObject == [key \in {<<"\\ud800">>} |-> 1]

\* {"python": {"v": 1}, "nodejs": {"v": 2}}
TwoProducts == [key \in ProductIds |-> JsonObject(IF key = <<"python">> THEN 1 ELSE 2)]

SaveInputs ==
    {[data |-> JsonObject(1), depth |-> 1],
     [data |-> TwoProducts, depth |-> 2],
     [data |-> SurrogateObject, depth |-> 1]}

SavePaths ==
    {<<"custom.json">>,
     <<"Output", "/", "python", "-eol.json">>,
     <<"a", "/", "b", "/", "c.json">>,
     <<"old.json", "/", "x.json">>}

\* a file that is not JSON
OldGarbage == <<Punct("{"), StrTok(<<"old">>)>>

\* filesystems save_json can find: empty; the targets present with other
\* content (longer, shorter, not JSON); a nested target with its directories
InitialFs ==
    {EmptyFs,
     [dirs |-> {<<"Output">>, <<"a">>},
      files |-> (<<"custom.json">> :> JsonDump(TwoProducts, 2))
                @@ (<<"Output", "/", "python", "-eol.json">> :> OldGarbage)
                @@ (<<"old.json">> :> JsonDump(JsonObject(2), 1))],
     [dirs |-> {<<"a">>, <<"a", "/", "b">>},
      files |-> (<<"a", "/", "b", "/", "c.json">> :> JsonDump(JsonObject(2), 1))]}

InitSave ==
    /\ products = <<>>
    /\ arg_output = PyNone
    /\ output = PyNone
    /\ one_file = FALSE
    /\ results = <<>>
    /\ errors = <<>>
    /\ pc = "saving"
    /\ i = 1
    /\ j = 1
    /\ saved_files = <<>>
    /\ exit_code = 0
    /\ writes = <<>>
    /\ stderr = <<>>
    /\ events = <<>>
    /\ call_product = <<"python">>
    /\ call_resp = NetErrResp
    /\ call_out = NotCalled
    /\ gets = <<>>
    /\ fs \in InitialFs
    /\ sv = NotSaved

CallSave ==
    /\ pc = "saving"
    /\ sv.n < MaxSaves
    /\ \E input \in SaveInputs, path \in SavePaths, flt \in SaveFaults :
         LET saved == save_json(fs, input.data, input.depth, path, flt.fault, flt.cut)
         IN /\ fs' = saved.fs
            /\ sv' = [n |-> sv.n + 1, data |-> input.data, depth |-> input.depth,
                      path |-> path,
                      out |-> [raised |-> saved.raised, step |-> saved.step,
                               message |-> saved.message],
                      before |-> fs,
                      prev |-> [data |-> sv.data, path |-> sv.path,
                                raised |-> sv.out.raised]]
    /\ UNCHANGED <<call_product, call_resp, call_out, gets>>
    /\ UNCHANGED mainVars

NextSave == CallSave

SpecSave == InitSave /\ [][NextSave]_vars

-----------------------------------------------------------------------------
(* Properties *)

FetchDone == pc # "fetch" \/ i > Len(products)

FetchEvents == SelectSeq(events, LAMBDA ev : ev.e = "fetch")
WriteEvents == SelectSeq(events, LAMBDA ev : ev.e = "write")

ErrorTypes(errs) == {errs[n].v.type : n \in 1..Len(errs)}

\* C1: at the end of the fetch phase no identifier is a key of both results
\* and errors, for every input list (repeated identifiers included) and every
\* assignment of outcomes to the requests.
C1_DisjointMaps ==
    FetchDone => Keys(results) \cap Keys(errors) = {}

\* C2: without any successful fetch, main exits with 10 when all failures are
\* not_found, with 13 when any failure is rate_limit (also when others are
\* not_found), and with 11 when the failures are only other API/network errors.
C2_TotalFailureCodes ==
    (pc = "done" /\ Len(results) = 0) =>
        /\ ErrorTypes(errors) = {"not_found"} => exit_code = 10
        /\ "rate_limit" \in ErrorTypes(errors) => exit_code = 13
        /\ ErrorTypes(errors) = {"api_error"} => exit_code = 11

\* the identifiers listed by the final failure report
ReportedIds ==
    {stderr[n].product : n \in {m \in 1..Len(stderr) : stderr[m].line = "report_item"}}

\* C3: whichever way the run ends, every identifier whose fetch failed is listed
\* in the final failure report.
C3_AllFailuresReported ==
    pc = "done" => Keys(errors) \subseteq ReportedIds

\* a response with a status that is not 2xx, not 404 and not 429
OtherStatus(resp) ==
    /\ ~resp.neterr
    /\ ~(200 <= resp.status_code /\ resp.status_code <= 299)
    /\ resp.status_code \notin {404, 429}

\* C4: for every status that is not 2xx, 404 or 429 (1xx and 3xx included),
\* fetch_product raises EOLDAPIError with the numeric status in the message,
\* tagged server error for 500..599 and generic HTTP error otherwise.
C4_OtherStatusIsApiError ==
    (call_out # NotCalled /\ OtherStatus(call_resp)) =>
        /\ call_out.raised = "EOLDAPIError"
        /\ call_out.message.arg = PyInt(call_resp.status_code)
        /\ call_out.message.text =
             IF 500 <= call_resp.status_code /\ call_resp.status_code <= 599
             THEN "Server error {} from endoflife.date."
             ELSE "HTTP {} error from endoflife.date."

\* C5: for a 429 response, retry_after of the RateLimitError is the integer of
\* the Retry-After header when it parses as one, the raw header string when it
\* is present and does not parse (the empty string included), and None only
\* when the header is absent.
C5_RetryAfter ==
    (call_out # NotCalled /\ ~call_resp.neterr /\ call_resp.status_code = 429) =>
        /\ call_out.raised = "RateLimitError"
        /\ call_out.retry_after =
             IF call_resp.retry_after = PyNone THEN PyNone
             ELSE IF ParseInt(call_resp.retry_after.v).ok
                  THEN PyInt(ParseInt(call_resp.retry_after.v).val)
                  ELSE call_resp.retry_after

AllWritesOk == \A n \in 1..Len(writes) : writes[n].ok

\* C6: when at least one fetch succeeded, at least one fetch failed and every
\* write succeeded, the run ends with exit code 5.
C6_PartialSuccessCode ==
    (/\ pc = "done"
     /\ \E n \in 1..Len(FetchEvents) : FetchEvents[n].ok
     /\ \E n \in 1..Len(FetchEvents) : ~FetchEvents[n].ok
     /\ AllWritesOk)
    => exit_code = 5

\* a finished run of three fetches whose first one failed on the network, with
\* a later success written to disk
C6_Witness ==
    /\ pc = "done"
    /\ Len(FetchEvents) = 3
    /\ ~FetchEvents[1].ok
    /\ stderr[1].message.text = "Network or API error while requesting {url}: {e}"
    /\ FetchEvents[3].ok
    /\ Len(writes) > 0
    /\ AllWritesOk
    /\ exit_code = 5

\* C7: the fetches are those of the input list, one per identifier and in input
\* order, all of them attempted whatever the earlier outcomes; every write
\* comes after the last fetch.
C7_FetchesThenWrites ==
    /\ Len(FetchEvents) = (IF pc = "fetch" THEN i - 1 ELSE Len(products))
    /\ \A n \in 1..Len(FetchEvents) : FetchEvents[n].product = products[n]
    /\ \A n, m \in 1..Len(events) :
         (events[n].e = "write" /\ events[m].e = "fetch") => m < n
    /\ Len(WriteEvents) > 0 => Len(FetchEvents) = Len(products)

\* a finished run in which the first of three fetches timed out, the others were
\* still made, and a write followed
C7_Witness ==
    /\ pc = "done"
    /\ Len(products) = 3
    /\ Len(FetchEvents) = 3
    /\ ~FetchEvents[1].ok
    /\ stderr[1].message.text = "Network or API error while requesting {url}: {e}"
    /\ Len(WriteEvents) > 0

ExplicitGiven == Truthy(arg_output)

\* Output/{product}-eol.json, spelled out
PerProductPath(product) == <<"Output", "/">> \o product \o <<"-eol.json">>

\* C9, as stated: one requested product whose fetch succeeded is written, as
\* fetched, to the explicit path if given and to Output/{product}-eol.json
\* otherwise, whatever the combine flag.
C9_SingleProductPath ==
    (pc = "done" /\ Len(products) = 1 /\ Len(results) = 1) =>
        /\ Len(writes) = 1
        /\ writes[1].path = (IF ExplicitGiven THEN arg_output.v
                             ELSE PerProductPath(products[1]))
        /\ writes[1].data = results[1].v

\* C9, amended: the same when the combine flag is not set.
C9_SingleProductSeparate ==
    (pc = "done" /\ Len(products) = 1 /\ Len(results) = 1 /\ ~one_file) =>
        /\ Len(writes) = 1
        /\ writes[1].path = (IF ExplicitGiven THEN arg_output.v
                             ELSE PerProductPath(products[1]))
        /\ writes[1].data = results[1].v

\* one product, no combine flag, an explicit path, and the payload written there
C9_Witness ==
    /\ pc = "done"
    /\ Len(products) = 1
    /\ ~one_file
    /\ arg_output = PyStr(<<"custom.json">>)
    /\ Len(writes) = 1
    /\ writes[1].ok
    /\ writes[1].path = <<"custom.json">>
    /\ writes[1].data = JsonObject(2)

\* several products, no combine flag, an explicit path
SeveralSeparateExplicit == Len(products) > 1 /\ ~one_file /\ ExplicitGiven

\* C10, as stated: with several products, no combine flag and an explicit path,
\* the explicit path is never written and every fetched product is written to
\* Output/{product}-eol.json.
C10_ExplicitPathNeverWritten ==
    SeveralSeparateExplicit =>
        /\ \A n \in 1..Len(writes) :
             /\ writes[n].path # arg_output.v
             /\ writes[n].path = PerProductPath(results[n].k)
        /\ (pc = "done" /\ AllWritesOk) => Len(writes) = Len(results)

\* C10, amended: every fetched product is written to Output/{product}-eol.json
\* and nowhere else; the explicit path is written only when it is itself the
\* default path of a fetched product.
C10_DefaultPathsOnly ==
    SeveralSeparateExplicit =>
        /\ \A n \in 1..Len(writes) :
             /\ writes[n].path = PerProductPath(results[n].k)
             /\ writes[n].data = results[n].v
        /\ (pc = "done" /\ AllWritesOk) => Len(writes) = Len(results)
        /\ arg_output.v \notin {PerProductPath(key) : key \in Keys(results)}
             => \A n \in 1..Len(writes) : writes[n].path # arg_output.v

\* two products requested with -o custom.json, one of them fetched: it went to
\* its default path
C10_Witness ==
    /\ pc = "done"
    /\ SeveralSeparateExplicit
    /\ arg_output = PyStr(<<"custom.json">>)
    /\ Len(results) = 1
    /\ Len(errors) > 0
    /\ Len(writes) = 1
    /\ writes[1].ok
    /\ writes[1].path = <<"Output", "/", "nodejs", "-eol.json">>

\* the identifiers with a successful fetch, and those with a failed fetch
FetchedIds == {FetchEvents[n].product : n \in {m \in 1..Len(FetchEvents) : FetchEvents[m].ok}}
FailedIds == {FetchEvents[n].product : n \in {m \in 1..Len(FetchEvents) : ~FetchEvents[m].ok}}

\* C11: with the combine flag and at least one successful fetch, main makes
\* exactly one write, to the explicit path if given and to
\* Output/all-products-eol.json otherwise; the value written maps exactly the
\* fetched identifiers to their payloads, no identifier whose fetch failed is
\* a key of it, and no per-product file is written.
C11_CombinedWrite ==
    (pc = "done" /\ one_file /\ FetchedIds # {}) =>
        /\ Len(writes) = 1
        /\ writes[1].path = (IF ExplicitGiven THEN arg_output.v
                             ELSE <<"Output", "/", "all-products-eol.json">>)
        /\ DOMAIN writes[1].data = FetchedIds
        /\ \A key \in FetchedIds : writes[1].data[key] = Lookup(results, key)
        /\ FailedIds \cap DOMAIN writes[1].data = {}

\* the number of GET requests made for an identifier, and the number of times
\* the input list names it
GetCount(product) == Cardinality({n \in 1..Len(gets) : gets[n] = product})
Listed(product) == Cardinality({n \in 1..Len(products) : products[n] = product})

\* C12: every call of fetch_product makes exactly one GET whatever its outcome,
\* so a finished run has made as many GETs as the input list has entries, in
\* the order of the list, and no identifier (rate-limited or not) is requested
\* more often than the list names it.
C12_OneGetPerFetch ==
    /\ Len(gets) = Len(FetchEvents)
    /\ \A n \in 1..Len(gets) : gets[n] = products[n]
    /\ pc = "done" => /\ Len(gets) = Len(products)
                      /\ \A product \in ProductIds : GetCount(product) = Listed(product)

\* a finished run of three fetches, the first of them rate-limited, with three GETs
C12_Witness ==
    /\ pc = "done"
    /\ Len(products) = 3
    /\ Len(errors) > 0
    /\ errors[1].v.type = "rate_limit"
    /\ errors[1].k = products[1]
    /\ Len(gets) = 3

\* a response that fetch_product takes as successful by its status
SuccessByStatus(resp) ==
    /\ ~resp.neterr
    /\ resp.status_code \notin {404, 429}
    /\ ~StartsWith5(resp.status_code)
    /\ RespOk(resp.status_code)

\* C13: for a response taken as successful by status, fetch_product returns
\* the parsed body when the body is valid JSON and raises the invalid-JSON
\* EOLDAPIError otherwise; it returns nothing for a body that does not parse.
C13_ParsedOrInvalidJson ==
    (call_out # NotCalled /\ SuccessByStatus(call_resp)) =>
        /\ call_resp.body = "{\"v\":1}" => call_out = Return(JsonObject(1))
        /\ call_resp.body = "{\"v\":2}" => call_out = Return(JsonObject(2))
        /\ call_resp.body = "<html>" =>
             /\ call_out.raised = "EOLDAPIError"
             /\ call_out.message.text = "Invalid JSON received from API: {e}"
             /\ call_out.message.arg = PyStr(<<"<html>">>)

\* a 200 response with a body that is not JSON, answered by the invalid-JSON error
C13_Witness ==
    /\ call_resp.neterr = FALSE
    /\ call_resp.status_code = 200
    /\ call_resp.body = "<html>"
    /\ call_out.raised = "EOLDAPIError"
    /\ call_out.message.text = "Invalid JSON received from API: {e}"

\* C14: a 404 for identifier X makes fetch_product raise ProductNotFoundError
\* with X in the message, whatever the body and headers, and main records it
\* with type not_found, not api_error.
C14_NotFound ==
    (call_out # NotCalled /\ ~call_resp.neterr /\ call_resp.status_code = 404) =>
        /\ call_out.raised = "ProductNotFoundError"
        /\ call_out.message.text = "Product '{}' not found on endoflife.date."
        /\ call_out.message.arg = PyStr(call_product)
        /\ call_product \in Keys(errors)
        /\ Lookup(errors, call_product).type = "not_found"
        /\ Lookup(errors, call_product).message = call_out.message

\* a 404 that carries a JSON body and a Retry-After header, recorded as not_found
C14_Witness ==
    /\ pc = "done"
    /\ call_resp.neterr = FALSE
    /\ call_resp.status_code = 404
    /\ call_resp.body = "{\"v\":1}"
    /\ call_resp.retry_after = PyStr(<<"6">>)
    /\ Lookup(errors, call_product).type = "not_found"

\* C15: when save_json(v, p) returns, the directories above p exist and the
\* file at p parses to v, whatever was there before; a second save of the same
\* value to the same path leaves the filesystem as the first one left it.
C15_SaveRoundTrip ==
    (sv.n > 0 /\ sv.out.raised = "none") =>
        /\ Ancestors(Dirname(sv.path)) \subseteq fs.dirs
        /\ sv.path \in DOMAIN fs.files
        /\ LET loaded == JsonLoadText(fs.files[sv.path])
           IN loaded.ok /\ loaded.val = sv.data
        /\ (sv.prev.raised = "none" /\ sv.prev.path = sv.path /\ sv.prev.data = sv.data)
             => fs = sv.before

\* a save that returned, over a file that held a longer document
C15_Witness ==
    /\ sv.n = 1
    /\ sv.out.raised = "none"
    /\ sv.path = <<"custom.json">>
    /\ sv.data = JsonObject(1)
    /\ sv.path \in DOMAIN sv.before.files
    /\ Len(sv.before.files[sv.path]) > Len(fs.files[sv.path])

\* C16: every failed step of save_json (creating the directories, opening or
\* writing the file) reaches the caller as FileSaveError with the path in its
\* message; no other exception leaves save_json, and it does not return
\* normally after a failed step.
C16_AllFailuresWrapped ==
    sv.n > 0 =>
        /\ sv.out.step # "none" =>
             /\ sv.out.raised = "FileSaveError"
             /\ sv.out.message.arg = PyStr(sv.path)
        /\ sv.out.raised = "none" => sv.out.step = "none"

\* C17: the paths written during a run are pairwise distinct, and the file of
\* every successful write still holds what that write put there.
C17_DistinctPaths ==
    /\ \A n, m \in 1..Len(writes) : n # m => writes[n].path # writes[m].path
    /\ \A n \in 1..Len(writes) :
         writes[n].ok =>
             /\ writes[n].path \in DOMAIN fs.files
             /\ JsonLoadText(fs.files[writes[n].path]) = [ok |-> TRUE, val |-> writes[n].data]

\* an identifier named twice and fetched twice, another one in between, and
\* two files written
C17_Witness ==
    /\ pc = "done"
    /\ ~one_file
    /\ Len(products) = 3
    /\ products[1] = products[3]
    /\ \A n \in 1..Len(FetchEvents) : FetchEvents[n].ok
    /\ Len(writes) = 2
    /\ AllWritesOk

\* C18: as long as no fetch has succeeded save_json is not called and the
\* filesystem is as the run found it; a run without any successful fetch ends
\* with 10, 11 or 13, under either value of the combine flag.
C18_TotalFailureWritesNothing ==
    FetchedIds = {} =>
        /\ writes = <<>>
        /\ fs = EmptyFs
        /\ pc = "done" => exit_code \in {10, 11, 13}

\* three products, all rate-limited, with the combine flag and an explicit path
C18_Witness ==
    /\ pc = "done"
    /\ one_file
    /\ arg_output = PyStr(<<"custom.json">>)
    /\ Len(FetchEvents) = 3
    /\ FetchedIds = {}
    /\ exit_code = 13
    /\ fs = EmptyFs

====
